---------------------------- MODULE Spec2Model ----------------------------
(***************************************************************************)
(* A model of the multi-agent workflow of workflow_builder.py,             *)
(* agent_logic.py and tools.py.                                            *)
(*                                                                         *)
(* The two graphs are StateGraph(AgentState) graphs.  AgentState declares  *)
(* its five keys as plain types (no reducer annotation), so every key is   *)
(* a last-value channel: a key carried by a node's update replaces the     *)
(* stored value, a key the update does not carry is kept.  A routing       *)
(* function is called with a dict built from the channels; what it assigns *)
(* to that dict is not an update and never reaches the channels.           *)
(*                                                                         *)
(* Representation.  A Python dict is the set of its <<key, value>> pairs.  *)
(* An Optional[str] is <<>> for None and <<s>> for the string s.  The      *)
(* "output" key holds <<>> for the initial empty dict {} and <<o>> for the *)
(* AgentOutcome o that tool_node stores there.                             *)
(***************************************************************************)
EXTENDS Naturals, Sequences, FiniteSets

VARIABLES
    flow,          \* "single" or "multi": which builder compiled the graph
    state,         \* the AgentState held by the graph's channels
    cur,           \* the node being executed, or "END"
    phase,         \* "action": cur's action is due; "route": its edge is due
    status,        \* "running", "END", "error" (exception), "stuck" (no next node)
    update,        \* the partial update returned by the last node action
    messages,      \* the messages of the last call of the decision function
    mem,           \* the memory_log of the last trigger_agent call
    steps,         \* node actions executed so far
    nDecide,       \* executions of a decision node (Agent1 or Agent2)
    nDispatch,     \* executions of tool_node
    firstFinal,    \* <<>>, <<"other">> or <<"final", m>>: the first decision
    decider,       \* the decision node that produced the last Outcome
    choice,        \* <<>> or <<a>>: the last answer read by check_human_decision
    gateYes,       \* check_human_decision has returned "Agent2" in this run
    primaryFinal,  \* a finalize decided by Agent1 has been dispatched
    agent2Runs,    \* executions of Agent2
    wikiRuns,      \* dispatches of tool_wikipedia
    escalations,   \* routing steps that met an empty tool_name
    dispatched,    \* the Outcomes returned by non-finalize dispatches, in order
    lastRaw,       \* <<>> or <<raw>>: the last response of the decision function
    failure,       \* "" or what ended the run short of END
    onlyEmpty      \* every decision of the run so far had an empty tool_name

vars == <<flow, state, cur, phase, status, update, messages, mem, steps,
          nDecide, nDispatch, firstFinal, decider, choice, gateYes,
          primaryFinal, agent2Runs, wikiRuns, escalations, dispatched, lastRaw,
          failure, onlyEmpty>>

---------------------------------------------------------------------------
\* Bounds of the model

MaxSteps == 6
MaxLen == 3

---------------------------------------------------------------------------
\* Dicts as sets of <<key, value>> pairs

Has(d, k) == \E p \in d : p[1] = k

Get(d, k) == (CHOOSE p \in d : p[1] = k)[2]

Keys(d) == {p[1] : p \in d}

\* Optional[str]
None == <<>>

Some(s) == <<s>>

---------------------------------------------------------------------------
\* The values the external collaborators can produce

END == "END"

\* main.py's query and a short one (fewer than 3 words)
Queries == {"Who died on September 9, 2024?", "Hello"}

Messages == {"Paris", "Rome"}

\* what a search tool can return: nothing, or some text
ToolOutputs == {"", "result"}

\* the action names the decision function can answer with
Names == {"", "browse_duckduckgo", "respond_final", "tool_wikipedia", "Human", "foo"}

\* the parameters the decision function can answer with
Inputs == {{<<"message", m>>} : m \in Messages}
            \cup {{<<"query", "q">>}, {<<"keywords", "q">>}}

\* the answers the console can give to check_human_decision
Answers == {"y", "Yes", "n", ""}

\* main.py's chat_log
ChatLog == << [role |-> "user", kind |-> "text", name |-> "", params |-> {}, parts |-> << >>, text |-> "Hello."],
              [role |-> "assistant", kind |-> "text", name |-> "", params |-> {}, parts |-> << >>, text |-> "Hi, what's your question?"],
              [role |-> "user", kind |-> "text", name |-> "", params |-> {}, parts |-> << >>, text |-> "I'd like some info."],
              [role |-> "assistant", kind |-> "text", name |-> "", params |-> {}, parts |-> << >>, text |-> "Sure, what's on your mind?"] >>

---------------------------------------------------------------------------
\* agent_logic.py

\* A response of the decision function: message.content may be missing, may
\* not be JSON, and the JSON object may lack "name" or "parameters".
RawResponses ==
    [hasContent : {TRUE}, isJson : {TRUE}, keys : {{"name", "parameters"}},
     name : Names, parameters : Inputs]
    \cup
    [hasContent : {FALSE}, isJson : {FALSE}, keys : {{}},
     name : {"respond_final"}, parameters : {{<<"message", "Paris">>}}]
    \cup
    [hasContent : {TRUE}, isJson : {FALSE}, keys : {{}},
     name : {"respond_final"}, parameters : {{<<"message", "Paris">>}}]
    \cup
    [hasContent : {TRUE}, isJson : {TRUE}, keys : {{"name"}, {"parameters"}},
     name : {"respond_final"}, parameters : {{<<"message", "Paris">>}}]

AgentOutcome(name, input, out) ==
    [tool_name |-> name, tool_input |-> input, tool_output |-> out]

\* parse_llm_output that fills in what the response lacks
parse_llm_output_lenient(raw_llm_result) ==
    << AgentOutcome(IF "name" \in raw_llm_result.keys THEN raw_llm_result.name ELSE "",
                    IF "parameters" \in raw_llm_result.keys
                        THEN raw_llm_result.parameters ELSE {},
                    None) >>

\* AgentOutcome.parse_llm_output: <<o>> when it returns o, <<>> when it raises
parse_llm_output(raw_llm_result) ==
    IF /\ raw_llm_result.hasContent
       /\ raw_llm_result.isJson
       /\ "name" \in raw_llm_result.keys
       /\ "parameters" \in raw_llm_result.keys
    THEN << AgentOutcome(raw_llm_result.name, raw_llm_result.parameters, None) >>
    ELSE << >>

\* len(s.split()) for the strings of the model
WordCount(s) ==
    CASE s = "Who died on September 9, 2024?" -> 6
      [] s = "" -> 0
      [] OTHER -> 1

is_query_ambiguous(user_q) == WordCount(user_q) < 3

\* adapt_system_prompt: the prompt as the sequence of the texts concatenated
adapt_system_prompt(base_prompt, user_q, attempt_count) ==
    << base_prompt >>
    \o (IF is_query_ambiguous(user_q) THEN << "request seems unclear" >> ELSE << >>)
    \o (IF attempt_count > 0 THEN << "made an attempt before" >> ELSE << >>)

\* Python truthiness of an Optional[str]: None and "" are false
Truthy(opt) == opt # None /\ opt[1] # ""

\* a context entry: role, and a content that is plain text, the JSON dump of
\* a decision, or the reminder built around a query
TextEntry(role, s) ==
    [role |-> role, kind |-> "text", name |-> "", params |-> {}, parts |-> << >>,
     text |-> s]

DecisionEntry(o) ==
    [role |-> "assistant", kind |-> "json", name |-> o.tool_name,
     params |-> o.tool_input, parts |-> << >>, text |-> ""]

ReminderEntry(user_query) ==
    [role |-> "user", kind |-> "reminder", name |-> "", params |-> {},
     parts |-> << >>, text |-> user_query]

\* the loop of build_memory (lines 101-109)
RECURSIVE build_memory_pairs(_)
build_memory_pairs(outcomes) ==
    IF outcomes = << >> THEN << >>
    ELSE LET o == Head(outcomes)
         IN  (IF Truthy(o.tool_output)
                THEN << DecisionEntry(o), TextEntry("user", o.tool_output[1]) >>
                ELSE << >>)
             \o build_memory_pairs(Tail(outcomes))

\* build_memory that appends the reminder unconditionally
build_memory_always_reminds(outcomes, user_query) ==
    Append(build_memory_pairs(outcomes), ReminderEntry(user_query))

build_memory(outcomes, user_query) ==
    LET m == build_memory_pairs(outcomes)
    IN  IF m # << >> THEN Append(m, ReminderEntry(user_query)) ELSE m

\* the system entry: adapted prompt, then the tool list in dict order
SystemEntry(adapted_prompt, available_tools) ==
    [role |-> "system", kind |-> "system", name |-> "", params |-> {},
     parts |-> adapted_prompt \o << "You can use these tools:" >> \o available_tools,
     text |-> ""]

\* memory_log (line 143)
trigger_agent_memory(user_q, previous_outcomes) ==
    build_memory(previous_outcomes, user_q)

\* trigger_agent up to the call of the decision function (lines 139-158)
trigger_agent_messages(system_prompt, available_tools, user_q, chat_history, previous_outcomes, attempt_count) ==
    << SystemEntry(adapt_system_prompt(system_prompt, user_q, attempt_count),
                   available_tools) >>
    \o chat_history
    \o << TextEntry("user", user_q) >>
    \o trigger_agent_memory(user_q, previous_outcomes)

\* trigger_agent from the response on (lines 160-173): <<outcome>> or <<>> when
\* parse_llm_output raises; nothing catches the exception
trigger_agent(llm_response) == parse_llm_output(llm_response)

---------------------------------------------------------------------------
\* tools.py

\* what a called function or node did: it raised, or it returned a value
Raised == << >>

Returned(v) == << v >>

\* the one keyword parameter of each tool function
ToolParam(name) ==
    CASE name = "browse_duckduckgo" -> "query"
      [] name = "respond_final" -> "message"
      [] name = "tool_wikipedia" -> "keywords"

\* chosen_tool(**tool_input): a TypeError unless the keywords are exactly the
\* function's parameter; respond_final returns its message, a search tool
\* returns what the outside world (ext) gives it
CallTool(name, tool_input, ext) ==
    IF Keys(tool_input) # {ToolParam(name)} THEN Raised
    ELSE IF name = "respond_final" THEN Returned(Get(tool_input, "message"))
    ELSE Returned(ext)

---------------------------------------------------------------------------
\* workflow_builder.py: node functions

Agent1Prompt == "You are the first Agent."

Agent2Prompt == "You are the second Agent."

Agent1Tools == << "browse_duckduckgo", "respond_final" >>

Agent2Tools == << "tool_wikipedia", "respond_final" >>

ToolMap == {"browse_duckduckgo", "respond_final", "tool_wikipedia"}

\* the messages primary_agent_node's trigger_agent call sends
primary_agent_messages(st) ==
    trigger_agent_messages(Agent1Prompt, Agent1Tools, st.user_q, st.chat_history,
                           st.lst_res, st.attempt_count)

\* primary_agent_node that counts the attempt itself, in its update
primary_agent_node_counts_attempt(st, llm_response) ==
    LET result == trigger_agent(llm_response)
    IN  IF result = Raised THEN Raised
        ELSE Returned({<<"lst_res", << result[1] >> >>,
                       <<"attempt_count", st.attempt_count + 1>>})

primary_agent_node(st, llm_response) ==
    LET result == trigger_agent(llm_response)
    IN  IF result = Raised THEN Raised
        ELSE Returned({<<"lst_res", << result[1] >> >>})

\* state["output"].get("tool_output", ""): the initial {} has no such key; an
\* AgentOutcome has no method get
second_agent_prev_output(st) ==
    IF st.output = << >> THEN Returned("") ELSE Raised

\* the query second_agent_node passes to trigger_agent (line 71)
second_agent_query(st) == second_agent_prev_output(st)[1]

second_agent_messages(st) ==
    trigger_agent_messages(Agent2Prompt, Agent2Tools, second_agent_query(st),
                           st.chat_history, st.lst_res, st.attempt_count)

second_agent_node(st, llm_response) ==
    IF second_agent_prev_output(st) = Raised THEN Raised
    ELSE LET result == trigger_agent(llm_response)
         IN  IF result = Raised THEN Raised
             ELSE Returned({<<"lst_res", << result[1] >> >>})

\* tool_node that files the finalize result with the other results
tool_node_appends_final(st, ext) ==
    IF st.lst_res = << >> THEN Raised
    ELSE LET last_res == st.lst_res[Len(st.lst_res)]
         IN  IF last_res.tool_name \notin ToolMap THEN Returned({})
             ELSE LET tool_output_str ==
                          CallTool(last_res.tool_name, last_res.tool_input, ext)
                  IN  IF tool_output_str = Raised THEN Raised
                      ELSE Returned({<<"lst_res",
                                       << AgentOutcome(last_res.tool_name,
                                                       last_res.tool_input,
                                                       Some(tool_output_str[1])) >> >>})

\* tool_node that records every tool result in output as well
tool_node_outputs_every_result(st, ext) ==
    IF st.lst_res = << >> THEN Raised
    ELSE LET last_res == st.lst_res[Len(st.lst_res)]
         IN  IF last_res.tool_name \notin ToolMap THEN Returned({})
             ELSE LET tool_output_str ==
                          CallTool(last_res.tool_name, last_res.tool_input, ext)
                      updated_res ==
                          AgentOutcome(last_res.tool_name, last_res.tool_input,
                                       Some(tool_output_str[1]))
                  IN  IF tool_output_str = Raised THEN Raised
                      ELSE IF updated_res.tool_name = "respond_final"
                          THEN Returned({<<"output", << updated_res >> >>})
                          ELSE Returned({<<"lst_res", << updated_res >> >>,
                                         <<"output", << updated_res >> >>})

tool_node(st, ext) ==
    IF st.lst_res = << >> THEN Raised
    ELSE LET last_res == st.lst_res[Len(st.lst_res)]
         IN  IF last_res.tool_name \notin ToolMap THEN Returned({})
             ELSE LET tool_output_str ==
                          CallTool(last_res.tool_name, last_res.tool_input, ext)
                      updated_res ==
                          AgentOutcome(last_res.tool_name, last_res.tool_input,
                                       Some(tool_output_str[1]))
                  IN  IF tool_output_str = Raised THEN Raised
                      ELSE IF updated_res.tool_name = "respond_final"
                          THEN Returned({<<"output", << updated_res >> >>})
                          ELSE Returned({<<"lst_res", << updated_res >> >>})

\* human_feedback_node returns None: no update
human_feedback_node(st) == Returned({})

\* str.lower() and str.startswith("y") on the answers of the model
Lower(s) == IF s = "Yes" THEN "yes" ELSE s

StartsWithY(s) == s \in {"y", "yes"}

check_human_decision(user_choice) ==
    IF StartsWithY(Lower(user_choice)) THEN "Agent2" ELSE END

\* determine_next_tool that finalizes when the decision names no tool
determine_next_tool_finalizes_unnamed(st) ==
    IF st.lst_res = << >> THEN [ret |-> "respond_final", st |-> st]
    ELSE LET last_outcome == st.lst_res[Len(st.lst_res)]
         IN  IF last_outcome.tool_name = ""
                 THEN [ret |-> "respond_final",
                       st  |-> [st EXCEPT !.attempt_count = @ + 1]]
                 ELSE [ret |-> last_outcome.tool_name, st |-> st]

\* determine_next_tool: what it returns, and the dict it was given as it
\* leaves it (line 135 assigns to that dict)
determine_next_tool(st) ==
    IF st.lst_res = << >> THEN [ret |-> "respond_final", st |-> st]
    ELSE LET last_outcome == st.lst_res[Len(st.lst_res)]
         IN  IF last_outcome.tool_name = ""
                 THEN [ret |-> "Agent1",
                       st  |-> [st EXCEPT !.attempt_count = @ + 1]]
                 ELSE [ret |-> last_outcome.tool_name, st |-> st]

---------------------------------------------------------------------------
\* workflow_builder.py: the two graphs

\* add_node
build_single_agent_flow_nodes == {"Agent1", "browse_duckduckgo", "respond_final"}

build_multi_agent_flow_nodes ==
    {"Agent1", "browse_duckduckgo", "respond_final", "Human", "Agent2",
     "tool_wikipedia"}

\* add_edge (line 195 adds END -> END: no edge leaves a node there)
build_single_agent_flow_edges ==
    {<<"browse_duckduckgo", "Agent1">>, <<"respond_final", END>>}

build_multi_agent_flow_edges ==
    {<<"browse_duckduckgo", "Agent1">>, <<"tool_wikipedia", "Agent2">>}

\* add_conditional_edges: the nodes routed by determine_next_tool and by
\* check_human_decision
build_single_agent_flow_routed == {"Agent1"}

build_multi_agent_flow_routed == {"Agent1", "Agent2"}

build_single_agent_flow_gated == {}

build_multi_agent_flow_gated == {"respond_final"}

GraphNodes(f) ==
    IF f = "single" THEN build_single_agent_flow_nodes
                    ELSE build_multi_agent_flow_nodes

GraphEdges(f) ==
    IF f = "single" THEN build_single_agent_flow_edges
                    ELSE build_multi_agent_flow_edges

Routed(f) ==
    IF f = "single" THEN build_single_agent_flow_routed
                    ELSE build_multi_agent_flow_routed

Gated(f) ==
    IF f = "single" THEN build_single_agent_flow_gated
                    ELSE build_multi_agent_flow_gated

\* The merge of a node's update into the state: AgentState (lines 16-26)
\* gives no key a reducer, so a key of the update replaces the stored value
Merge(st, upd) ==
    [k \in DOMAIN st |-> IF Has(upd, k) THEN Get(upd, k) ELSE st[k]]

\* The state after a conditional edge: the routing function's return value is
\* all the graph takes from it; the dict it was given is dropped
AfterRouting(st, routed) == st

---------------------------------------------------------------------------
\* A run: main.py's initial_state, invoked on either compiled graph

InitialState(q) ==
    [user_q |-> q, chat_history |-> ChatLog, lst_res |-> << >>,
     output |-> << >>, attempt_count |-> 0]

NoHistory ==
    /\ update = {}
    /\ messages = << >>
    /\ mem = << >>
    /\ steps = 0
    /\ nDecide = 0
    /\ nDispatch = 0
    /\ firstFinal = << >>
    /\ decider = ""
    /\ choice = << >>
    /\ gateYes = FALSE
    /\ primaryFinal = FALSE
    /\ agent2Runs = 0
    /\ wikiRuns = 0
    /\ escalations = 0
    /\ dispatched = << >>
    /\ lastRaw = << >>
    /\ failure = ""
    /\ onlyEmpty = TRUE

Init ==
    /\ flow \in {"single", "multi"}
    /\ \E q \in Queries : state = InitialState(q)
    /\ cur = "Agent1"
    /\ phase = "action"
    /\ status = "running"
    /\ NoHistory

\* the graph moves to the node a routing function or an edge names
Goto(target) ==
    /\ cur' = target
    /\ IF target = END
         THEN phase' = "end" /\ status' = "END" /\ failure' = failure
       ELSE IF target \in GraphNodes(flow)
         THEN phase' = "action" /\ status' = status /\ failure' = failure
       ELSE /\ phase' = "end"
            /\ status' \in {"error", "stuck"}
            /\ failure' = "UnknownNode"

\* the graph takes what a node action did: an exception ends the run, an
\* update is merged and the node's edge is due
NodeDone(r, why) ==
    /\ steps' = steps + 1
    /\ cur' = cur
    /\ IF r = Raised
         THEN /\ state' = state
              /\ update' = update
              /\ phase' = "end"
              /\ status' = "error"
              /\ failure' = why
         ELSE /\ state' = Merge(state, r[1])
              /\ update' = r[1]
              /\ phase' = "route"
              /\ status' = status
              /\ failure' = failure

IsFinalDecision(o) ==
    /\ o.tool_name = "respond_final"
    /\ Keys(o.tool_input) = {"message"}

\* what a decision node's execution adds to the history of the run
DecisionHistory(node, raw, r) ==
    /\ lastRaw' = << raw >>
    /\ nDecide' = nDecide + 1
    /\ decider' = IF r = Raised THEN decider ELSE node
    /\ onlyEmpty' = (onlyEmpty /\ r # Raised
                       /\ Get(r[1], "lst_res")[1].tool_name = "")
    /\ firstFinal' =
         IF nDecide > 0 THEN firstFinal
         ELSE IF r # Raised /\ IsFinalDecision(Get(r[1], "lst_res")[1])
           THEN << "final", Get(Get(r[1], "lst_res")[1].tool_input, "message") >>
           ELSE << "other" >>

Agent1Action ==
    /\ status = "running" /\ phase = "action" /\ cur = "Agent1"
    /\ steps < MaxSteps
    /\ \E raw \in RawResponses :
         LET r == primary_agent_node(state, raw)
         IN  /\ messages' = primary_agent_messages(state)
             /\ mem' = trigger_agent_memory(state.user_q, state.lst_res)
             /\ NodeDone(r, "MalformedDecision")
             /\ DecisionHistory("Agent1", raw, r)
    /\ UNCHANGED <<flow, nDispatch, choice, gateYes, primaryFinal, agent2Runs,
                   wikiRuns, escalations, dispatched>>

Agent2Action ==
    /\ status = "running" /\ phase = "action" /\ cur = "Agent2"
    /\ steps < MaxSteps
    /\ agent2Runs' = agent2Runs + 1
    /\ IF second_agent_prev_output(state) = Raised
         THEN /\ NodeDone(Raised, "AttributeError")
              /\ nDecide' = nDecide + 1
              /\ onlyEmpty' = FALSE
              /\ UNCHANGED <<messages, mem, lastRaw, decider, firstFinal>>
         ELSE \E raw \in RawResponses :
                LET r == second_agent_node(state, raw)
                IN  /\ messages' = second_agent_messages(state)
                    /\ mem' = trigger_agent_memory(second_agent_query(state),
                                                   state.lst_res)
                    /\ NodeDone(r, "MalformedDecision")
                    /\ DecisionHistory("Agent2", raw, r)
    /\ UNCHANGED <<flow, nDispatch, choice, gateYes, primaryFinal, wikiRuns,
                   escalations, dispatched>>

ToolAction ==
    /\ status = "running" /\ phase = "action" /\ cur \in ToolMap
    /\ steps < MaxSteps
    /\ \E ext \in ToolOutputs :
         LET r == tool_node(state, ext)
         IN  /\ NodeDone(r, "ToolCall")
             /\ primaryFinal' =
                  (primaryFinal
                     \/ (r # Raised /\ Has(r[1], "output") /\ decider = "Agent1"))
             /\ wikiRuns' =
                  IF r # Raised /\ Has(r[1], "lst_res")
                        /\ Get(r[1], "lst_res")[1].tool_name = "tool_wikipedia"
                    THEN wikiRuns + 1 ELSE wikiRuns
             /\ dispatched' =
                  IF r # Raised /\ Has(r[1], "lst_res")
                    THEN dispatched \o Get(r[1], "lst_res") ELSE dispatched
    /\ nDispatch' = nDispatch + 1
    /\ UNCHANGED <<onlyEmpty, flow, messages, mem, nDecide, firstFinal, decider, choice,
                   gateYes, agent2Runs, escalations, lastRaw>>

HumanAction ==
    /\ status = "running" /\ phase = "action" /\ cur = "Human"
    /\ steps < MaxSteps
    /\ NodeDone(human_feedback_node(state), "Human")
    /\ UNCHANGED <<onlyEmpty, flow, messages, mem, nDecide, nDispatch, firstFinal, decider,
                   choice, gateYes, primaryFinal, agent2Runs, wikiRuns,
                   escalations, dispatched, lastRaw>>

\* the conditional edge of Agent1 and Agent2
RouteDecision ==
    /\ status = "running" /\ phase = "route" /\ cur \in Routed(flow)
    /\ LET routed == determine_next_tool(state)
       IN  /\ state' = AfterRouting(state, routed)
           /\ Goto(routed.ret)
           /\ escalations' =
                IF routed.st.attempt_count # state.attempt_count
                  THEN escalations + 1 ELSE escalations
    /\ UNCHANGED <<onlyEmpty, flow, update, messages, mem, steps, nDecide, nDispatch,
                   firstFinal, decider, choice, gateYes, primaryFinal,
                   agent2Runs, wikiRuns, dispatched, lastRaw>>

\* the conditional edge of respond_final in the two-stage flow
RouteGate ==
    /\ status = "running" /\ phase = "route" /\ cur \in Gated(flow)
    /\ \E user_choice \in Answers :
         /\ choice' = << user_choice >>
         /\ Goto(check_human_decision(user_choice))
         /\ gateYes' = (gateYes \/ check_human_decision(user_choice) = "Agent2")
    /\ UNCHANGED <<onlyEmpty, flow, state, update, messages, mem, steps, nDecide, nDispatch,
                   firstFinal, decider, primaryFinal, agent2Runs, wikiRuns,
                   escalations, dispatched, lastRaw>>

\* a static edge
RouteStatic ==
    /\ status = "running" /\ phase = "route"
    /\ \E e \in GraphEdges(flow) : e[1] = cur /\ Goto(e[2])
    /\ UNCHANGED <<onlyEmpty, flow, state, update, messages, mem, steps, nDecide, nDispatch,
                   firstFinal, decider, choice, gateYes, primaryFinal,
                   agent2Runs, wikiRuns, escalations, dispatched, lastRaw>>

\* a node no edge leaves (Human): the run has no next node
RouteNone ==
    /\ status = "running" /\ phase = "route"
    /\ cur \notin Routed(flow) \cup Gated(flow)
    /\ ~ \E e \in GraphEdges(flow) : e[1] = cur
    /\ phase' = "end" /\ status' = "stuck" /\ failure' = "NoEdge"
    /\ UNCHANGED <<onlyEmpty, flow, state, cur, update, messages, mem, steps, nDecide,
                   nDispatch, firstFinal, decider, choice, gateYes,
                   primaryFinal, agent2Runs, wikiRuns, escalations, dispatched,
                   lastRaw>>

Next ==
    \/ Agent1Action
    \/ Agent2Action
    \/ ToolAction
    \/ HumanAction
    \/ RouteDecision
    \/ RouteGate
    \/ RouteStatic
    \/ RouteNone

Spec == Init /\ [][Next]_vars

---------------------------------------------------------------------------
\* build_memory on its own: any list of outcomes, any query

MemoryOutcomes ==
    {AgentOutcome(n, {<<ToolParam(n), "q">>}, out) :
        n \in {"browse_duckduckgo", "tool_wikipedia"},
        out \in {None} \cup {Some(t) : t \in ToolOutputs}}

RECURSIVE SeqsUpTo(_, _)
SeqsUpTo(S, n) ==
    IF n = 0 THEN {<< >>}
    ELSE LET shorter == SeqsUpTo(S, n - 1)
         IN  shorter \cup {Append(q, x) : q \in shorter, x \in S}

InitMemory ==
    /\ flow = "single"
    /\ \E q \in Queries, outcomes \in SeqsUpTo(MemoryOutcomes, MaxLen) :
         state = [InitialState(q) EXCEPT !.lst_res = outcomes]
    /\ cur = "build_memory"
    /\ phase = "call"
    /\ status = "running"
    /\ NoHistory

BuildMemoryCall ==
    /\ cur = "build_memory" /\ phase = "call"
    /\ mem' = build_memory(state.lst_res, state.user_q)
    /\ phase' = "returned"
    /\ UNCHANGED <<flow, state, cur, status, update, messages, steps, nDecide,
                   nDispatch, firstFinal, decider, choice, gateYes,
                   primaryFinal, agent2Runs, wikiRuns, escalations, dispatched,
                   lastRaw, failure, onlyEmpty>>

NextMemory == BuildMemoryCall

SpecMemory == InitMemory /\ [][NextMemory]_vars

---------------------------------------------------------------------------
\* Properties

Last(q) == q[Len(q)]

\* C1: in the single-stage flow, a run whose first decision is respond_final
\* with {message: m} never fails, can always take its next step until it is
\* at END, executes the decision node once and the tool node once, and ends
\* with the finalize result m in the output field.
C1_SingleStageFinalize ==
    (flow = "single" /\ firstFinal # << >> /\ firstFinal[1] = "final") =>
        /\ status \in {"running", "END"}
        /\ nDecide = 1
        /\ nDispatch <= 1
        /\ status = "running" => ENABLED Next
        /\ status = "END" =>
             /\ nDispatch = 1
             /\ state.output # << >>
             /\ state.output[1].tool_output = Some(firstFinal[2])

C1_Witness ==
    /\ flow = "single"
    /\ firstFinal = << "final", "Rome" >>
    /\ status = "END"
    /\ nDecide = 1 /\ nDispatch = 1

Malformed(raw) ==
    \/ ~raw.hasContent
    \/ ~raw.isJson
    \/ "name" \notin raw.keys
    \/ "parameters" \notin raw.keys

\* C7: a decision step whose response is malformed (no content, not JSON, no
\* name or no parameters) ends the run with the parse error and leaves the
\* state as it was: no Outcome added, output and attempt_count unchanged.
C7_MalformedDecisionAborts ==
    [][(nDecide' = nDecide + 1 /\ lastRaw' # << >> /\ Malformed(lastRaw'[1])
          /\ failure' # "AttributeError") =>
            /\ status' = "error"
            /\ failure' = "MalformedDecision"
            /\ state' = state
            /\ update' = update]_vars

C7_Witness ==
    /\ status = "error"
    /\ failure = "MalformedDecision"
    /\ Malformed(lastRaw[1])
    /\ "name" \notin lastRaw[1].keys
    /\ state.lst_res # << >>
    /\ nDecide = 2

NonEmptyOutput(o) == o.tool_output # None /\ o.tool_output[1] # ""

PresentOutput(o) == o.tool_output # None

\* C8 as stated: the length of build_memory's result is 0 when no outcome has
\* a present output (an empty string counting as present), and otherwise
\* twice the number of outcomes with a present output, plus 1.
C8_LengthCountsPresent ==
    phase = "returned" =>
        LET n == Len(SelectSeq(state.lst_res, PresentOutput))
        IN  Len(mem) = IF n = 0 THEN 0 ELSE 2 * n + 1

\* C8 amended: the outcomes that count are those whose output is a non-empty
\* string; the result is their assistant/user pairs in list order, followed
\* by one reminder when there is at least one pair.
C8_LengthCountsNonEmpty ==
    phase = "returned" =>
        LET kept == SelectSeq(state.lst_res, NonEmptyOutput)
            n    == Len(kept)
        IN  /\ Len(mem) = IF n = 0 THEN 0 ELSE 2 * n + 1
            /\ \A i \in 1..n :
                 /\ mem[2 * i - 1] = DecisionEntry(kept[i])
                 /\ mem[2 * i] = TextEntry("user", kept[i].tool_output[1])
            /\ n > 0 => Last(mem) = ReminderEntry(state.user_q)

C8_Witness ==
    /\ phase = "returned"
    /\ Len(state.lst_res) = 3
    /\ state.lst_res[1].tool_output = Some("")
    /\ state.lst_res[2].tool_output = Some("result")
    /\ state.lst_res[3].tool_output = None
    /\ Len(mem) = 3

\* the last Outcome of the run is a decision that has been routed
RoutedDecision ==
    /\ state.lst_res # << >>
    /\ Last(state.lst_res).tool_output = None
    /\ ~(phase = "route" /\ cur \in Routed(flow))

\* C2: in the two-stage flow, once the primary stage's finalize has been
\* dispatched and the gate has been answered, an answer starting with "y"
\* makes Agent2 the next node, and any other answer ends the run at END
\* with Agent2 not executed in that run.
C2_GateAloneDecides ==
    (flow = "multi" /\ primaryFinal /\ choice # << >>) =>
        IF StartsWithY(Lower(choice[1]))
          THEN cur = "Agent2"
          ELSE status = "END" /\ agent2Runs = 0

\* C3: a routing step of determine_next_tool that meets an empty tool_name
\* goes to Agent1, does not fail, and leaves the attempt counter the next
\* node reads 1 greater; one that meets a non-empty tool_name goes to that
\* name and leaves the counter as it was.
C3_RoutingEscalates ==
    [][(phase = "route" /\ cur \in Routed(flow) /\ phase' # "route") =>
         IF Last(state.lst_res).tool_name = ""
           THEN /\ cur' = "Agent1"
                /\ status' = "running"
                /\ state'.attempt_count = state.attempt_count + 1
           ELSE /\ cur' = Last(state.lst_res).tool_name
                /\ state'.attempt_count = state.attempt_count]_vars

\* a finalize chosen by Agent2 has been dispatched and its edge followed
SecondaryFinalizeRouted ==
    /\ decider = "Agent2"
    /\ cur # "respond_final"
    /\ state.output # << >>
    /\ state.lst_res # << >>
    /\ Last(state.lst_res).tool_name = "respond_final"
    /\ Last(state.lst_res).tool_input = state.output[1].tool_input

\* C4: in the two-stage flow, after the gate has answered yes the secondary
\* decision node runs and decides, and once a finalize it chose has been
\* dispatched the run is at END, not back at the gate or a decision node.
C4_SecondaryFinalizeEnds ==
    flow = "multi" =>
        /\ gateYes => failure # "AttributeError"
        /\ SecondaryFinalizeRouted => status = "END"

UpdateOutcomes(upd) ==
    IF Has(upd, "lst_res") THEN Get(upd, "lst_res") ELSE << >>

\* C5: every node action that returns leaves lst_res equal to what it was
\* followed by the Outcomes of the update; output and attempt_count take
\* the update's value when it has one and are unchanged otherwise.
C5_MergeConcatenates ==
    [][(steps' = steps + 1 /\ status' # "error") =>
         /\ state'.lst_res = state.lst_res \o UpdateOutcomes(update')
         /\ state'.output =
              IF Has(update', "output") THEN Get(update', "output")
                                        ELSE state.output
         /\ state'.attempt_count =
              IF Has(update', "attempt_count") THEN Get(update', "attempt_count")
                                               ELSE state.attempt_count]_vars

\* C6: when the last decision names an action that is not in tool_node's
\* tool map, the run does not fail: once the decision has been routed the
\* run is still going, and the dispatch that follows returns no update.
C6_UnknownToolTolerated ==
    (RoutedDecision /\ Last(state.lst_res).tool_name \notin ToolMap \cup {""}) =>
        /\ status = "running"
        /\ failure = ""
        /\ (phase = "route" => cur \in ToolMap /\ update = {})

\* C9: whenever a decision function call carries a non-empty memory, its
\* last message is the reminder built around the run's user_q.
C9_ReminderRestatesUserQuery ==
    (messages # << >> /\ mem # << >>) =>
        Last(messages) = ReminderEntry(state.user_q)

\* C10: while every decision has an empty tool_name the run neither ends nor
\* fails and is at Agent1, and the attempt counter Agent1 reads counts the
\* decisions made, so it passes every N.
C10_UnboundedEscalation ==
    (onlyEmpty /\ nDecide > 0) =>
        /\ status = "running"
        /\ cur = "Agent1"
        /\ phase = "action" => state.attempt_count = nDecide

\* a routing step of determine_next_tool whose last Outcome has no tool_name
EscalationStep ==
    /\ phase = "route"
    /\ cur \in Routed(flow)
    /\ state.lst_res # << >>
    /\ Last(state.lst_res).tool_name = ""

\* C11: from one step to the next the attempt counter never decreases, and
\* a step that changes it is a routing step whose last Outcome has an empty
\* tool_name; decision nodes, tool dispatch and the gate leave it as it is.
C11_AttemptCounterMonotone ==
    [][/\ state'.attempt_count >= state.attempt_count
       /\ state'.attempt_count # state.attempt_count => EscalationStep]_vars

C11_Witness ==
    /\ escalations >= 1
    /\ nDecide >= 2
    /\ nDispatch >= 1
    /\ choice # << >>
    /\ state.attempt_count = 0

\* the node has an edge out of it, static or conditional
HasWayOut(f, n) ==
    \/ n \in Routed(f) \cup Gated(f)
    \/ \E e \in GraphEdges(f) : e[1] = n

\* C12: the current node of a run is always END or a declared node with at
\* least one outgoing edge: no run reaches an undeclared node id or a node
\* with no way out.
C12_GraphWellFormed ==
    \/ cur = END
    \/ cur \in GraphNodes(flow) /\ HasWayOut(flow, cur)

\* C13: in the two-stage flow tool_wikipedia is dispatched at most once in
\* a run.
C13_WikipediaAtMostOnce ==
    flow = "multi" => wikiRuns <= 1

\* a step of the tool-dispatch node that returns its update
DispatchStep ==
    /\ phase = "action"
    /\ cur \in ToolMap
    /\ state.lst_res # << >>
    /\ phase' = "route"

FinalizeDispatchStep ==
    DispatchStep /\ Last(state.lst_res).tool_name = "respond_final"

\* C14: a dispatch whose last Outcome names respond_final returns an update
\* that sets output to the finalize result (the message of the decision) and
\* has no lst_res, so the outcomes list stays exactly as it was; no other step
\* changes output.
C14_FinalizeDispatch ==
    [][/\ FinalizeDispatchStep =>
            /\ Keys(update') = {"output"}
            /\ state'.output = Get(update', "output")
            /\ state'.output # << >>
            /\ state'.output[1].tool_name = "respond_final"
            /\ state'.output[1].tool_input = Last(state.lst_res).tool_input
            /\ state'.output[1].tool_output =
                 << Get(Last(state.lst_res).tool_input, "message") >>
            /\ state'.lst_res = state.lst_res
       /\ state'.output # state.output => FinalizeDispatchStep]_vars

\* a finalize dispatch has set output in a run where a search was dispatched
\* before it and left output alone
C14_Witness ==
    /\ state.output # << >>
    /\ dispatched # << >>
    /\ phase = "route"
    /\ cur = "respond_final"

\* the Outcome at index i of the outcomes list is the same after the step
KeptInPlace(i) ==
    /\ i \in DOMAIN state'.lst_res
    /\ state'.lst_res[i] = state.lst_res[i]

\* C15: after a dispatch of a tool other than respond_final the last Outcome
\* has the name and input of the decision and a present output, every
\* Outcome that was in the list is still there as it was, and no step changes
\* an Outcome of the list whose output is present.
C15_NonFinalizeDispatch ==
    [][/\ (DispatchStep /\ Last(state.lst_res).tool_name # "respond_final") =>
            /\ state'.lst_res # << >>
            /\ Last(state'.lst_res).tool_name = Last(state.lst_res).tool_name
            /\ Last(state'.lst_res).tool_input = Last(state.lst_res).tool_input
            /\ Last(state'.lst_res).tool_output # << >>
            /\ \A i \in DOMAIN state.lst_res : KeptInPlace(i)
       /\ \A i \in DOMAIN state.lst_res :
            state.lst_res[i].tool_output # << >> => KeptInPlace(i)]_vars

\* the dispatches completed so far whose result is not empty, in order
ReplayedDispatches == SelectSeq(dispatched, NonEmptyOutput)

\* where the memory starts in the context: after the system entry, the chat
\* history and the query entry
MemoryStart == 1 + Len(ChatLog) + 1

\* C16: the context a decision node has just passed to the decision function
\* holds, after the system entry, the chat history and the query entry, the
\* assistant/user pair of every earlier dispatch with a non-empty result, in
\* dispatch order.
C16_MemoryReplay ==
    (phase = "route" /\ cur \in Routed(flow)) =>
        \A i \in 1..Len(ReplayedDispatches) :
            /\ Len(messages) >= MemoryStart + 2 * i
            /\ messages[MemoryStart + 2 * i - 1]
                 = DecisionEntry(ReplayedDispatches[i])
            /\ messages[MemoryStart + 2 * i]
                 = TextEntry("user", ReplayedDispatches[i].tool_output[1])

\* C17: in the two-stage flow the secondary decision node never fails while
\* reading the state, and the query entry of the context it has just passed
\* to the decision function is the text stored in output by the finalize
\* dispatch.
C17_SecondaryStageInput ==
    flow = "multi" =>
        /\ failure # "AttributeError"
        /\ (phase = "route" /\ cur = "Agent2") =>
              /\ state.output # << >>
              /\ messages[MemoryStart] =
                   TextEntry("user", state.output[1].tool_output[1])

\* C18: in the two-stage flow Agent2 has been executed only if the finalize
\* action of the primary stage was dispatched and the human gate answered yes.
C18_GateGuardsSecondary ==
    (flow = "multi" /\ agent2Runs > 0) => (primaryFinal /\ gateYes)

\* C19: when a tool-dispatch node is about to run, the outcomes list is not
\* empty, its last Outcome has no output and names the node being executed;
\* and when determine_next_tool is about to route, the list is not empty, so
\* its default for an empty list is never taken.
C19_DispatchPrecondition ==
    /\ (phase = "action" /\ cur \in ToolMap) =>
          /\ state.lst_res # << >>
          /\ Last(state.lst_res).tool_output = << >>
          /\ Last(state.lst_res).tool_name = cur
    /\ (phase = "route" /\ cur \in Routed(flow)) => state.lst_res # << >>

\* a search is about to be dispatched after an earlier dispatch of the run
C19_Witness ==
    /\ phase = "action"
    /\ cur = "browse_duckduckgo"
    /\ nDispatch >= 1
    /\ state.lst_res # << >>
    /\ Last(state.lst_res).tool_name = cur

=============================================================================
